---- MODULE Spec2Model ----
(***************************************************************************)
(* The boxing catalog (boxers_model.py: the boxers table and the functions *)
(* over it) and the ring (ring_model.py: RingModel).                       *)
(*                                                                         *)
(* Every function of the source is an operator that maps the state it      *)
(* reads and its arguments to the state it leaves and what it returns or   *)
(* raises; the action of the same operation applies it to the variables.   *)
(*                                                                         *)
(* Exceptions are named by kind.  The source raises                        *)
(*   "InvalidInput"     ValueError("Invalid weight/height/reach/age ..."), *)
(*                      ValueError("Invalid result: ..."),                 *)
(*                      TypeError("Invalid type: Expected 'Boxer' ...")    *)
(*   "DuplicateEntity"  ValueError("Boxer with name ... already exists")   *)
(*   "NotFound"         ValueError("Boxer with ID ... not found.")         *)
(*   "CapacityExceeded" ValueError("Ring is full, cannot add more ...")    *)
(*   "InvalidState"     ValueError("There must be two boxers to start a    *)
(*                      fight.")                                           *)
(* and "none" stands for a call that returned.                             *)
(***************************************************************************)
EXTENDS Integers, Sequences, FiniteSets

\* ------------------------------------------------------------------ bounds

\* Rows the table is ever given: ids 1..MaxId are handed out, none twice.
MaxId == 2

\* The fights counters of the table are not driven past MaxFights in sum.
MaxFights == 2

\* The random draws are the RGrid values 0/RGrid, 1/RGrid, .. below 1.
RGrid == 4

\* get_weight_class is applied to the weights up to MaxWeightInput.
MaxWeightInput == 210

\* The tables get_leaderboard is applied to give a row at most MaxStat fights.
MaxStat == 3

\* The calls of update_boxer_stats that run at the same time.
NProcs == 3

\* The fights a ring left to itself is taken through.
MaxRounds == 2

\* ------------------------------------------------------------------ inputs

\* The argument tuples create_boxer is called with: three that pass the
\* validation (two of them for the same name; "Al" and the older "Bo" are of
\* equal skill, the younger "Bo" is one point below) and one that fails
\* each check.
CreateInputs ==
    { [name |-> "Al",  weight |-> 150, height |-> 70, reach |-> 70, age |-> 30],
      [name |-> "Bo",  weight |-> 150, height |-> 70, reach |-> 70, age |-> 30],
      [name |-> "Bo",  weight |-> 150, height |-> 70, reach |-> 70, age |-> 20],
      [name |-> "Al",  weight |-> 124, height |-> 70, reach |-> 70, age |-> 30],
      [name |-> "Al",  weight |-> 150, height |-> 0,  reach |-> 70, age |-> 30],
      [name |-> "Al",  weight |-> 150, height |-> 70, reach |-> 0,  age |-> 30],
      [name |-> "Al",  weight |-> 150, height |-> 70, reach |-> 70, age |-> 17],
      [name |-> "Al",  weight |-> 150, height |-> 70, reach |-> 70, age |-> 41] }

\* The argument tuples of the specification of create_boxer alone: every
\* field on both sides of each bound the validation checks, the weight also
\* in another weight class, and a name that is empty.
CreateGrid ==
    [name : {"", "Al", "Bo"}, weight : {124, 125, 203}, height : {0, 1},
     reach : {0, 1}, age : {17, 18, 40, 41}]

\* The ids the callers pass: those handed out and one that never is.
IdInputs == 1 .. (MaxId + 1)

\* The names the callers look up: those created and one that never is.
NameInputs == {"Al", "Bo", "Cy"}

\* The outcomes update_boxer_stats is called with.
ResultInputs == {"win", "loss", "draw"}

\* The draws get_random() gives, as numerators over RGrid.
Draws == 0 .. (RGrid - 1)

\* The weights get_weight_class is called with: some below every threshold
\* (negative ones and 0 among them) and every weight up to a few past the
\* highest threshold.
WeightInputs == (0 - 5) .. MaxWeightInput

\* The rows of the tables get_leaderboard is applied to, before their
\* counters: one per weight class but the lightest.
LeaderboardArgs ==
    << [name |-> "Al", weight |-> 150, height |-> 70, reach |-> 70, age |-> 30],
       [name |-> "Bo", weight |-> 166, height |-> 70, reach |-> 70, age |-> 20],
       [name |-> "Cy", weight |-> 203, height |-> 70, reach |-> 70, age |-> 30] >>

\* The counters a row can have reached: wins never above fights.
StatPairs == {p \in (0 .. MaxStat) \X (0 .. MaxStat) : p[2] <= p[1]}

\* The tables: any of the rows, each with any counters.
LeaderboardTables ==
    { { [id |-> i, name |-> LeaderboardArgs[i].name,
         weight |-> LeaderboardArgs[i].weight,
         height |-> LeaderboardArgs[i].height,
         reach |-> LeaderboardArgs[i].reach, age |-> LeaderboardArgs[i].age,
         fights |-> pick[i][1], wins |-> pick[i][2]] : i \in present }
      : present \in SUBSET (1 .. Len(LeaderboardArgs)),
        pick \in [1 .. Len(LeaderboardArgs) -> StatPairs] }

\* The sort_by arguments: the two the code knows and one it does not.
SortInputs == {"wins", "win_pct", "losses"}

\* The rows get_fighting_skill is given the Boxer of: names of two lengths,
\* a weight of each of three classes, three reaches, and the ages at and
\* next to the two thresholds of the age modifier.
SkillRows ==
    [id : {1}, name : {"Al", "Cyd"}, weight : {125, 150, 203}, height : {70},
     reach : {1, 70, 75}, age : {18, 24, 25, 26, 35, 36, 40}]

\* What a caller may pass to enter_ring that is no Boxer: the string "Bobby".
NonBoxer == [str |-> "Bobby"]

\* ------------------------------------------------------------------ state

VARIABLES
    boxers,       \* the boxers table: a set of rows
    nextId,       \* the id the storage gives the next inserted row
    ring,         \* RingModel.ring: a sequence of Boxer values
    last,         \* the last call: its operation, arguments, outcome
    disciplines,  \* history: what failed fights did with the other boxer
    calls,        \* the calls of update_boxer_stats in flight, each on a
                  \* connection of its own: where it is, and what it saw
    writer,       \* the call whose connection holds the write lock, or 0
    uncommitted   \* the table as the writer's transaction has changed it

connections == <<calls, writer, uncommitted>>

vars == <<boxers, nextId, ring, last, disciplines, calls, writer, uncommitted>>

\* ------------------------------------------------------------------ catalog

\* The table's columns the INSERT of create_boxer does not name: the table
\* gives a new row fights = 0 and wins = 0.
ColumnDefaults == [fights |-> 0, wins |-> 0]

HasId(t, id) == \E b \in t : b.id = id

HasName(t, name) == \E b \in t : b.name = name

RowOf(t, id) == CHOOSE b \in t : b.id = id

get_weight_class_exclusive(weight) ==
    IF weight > 203 THEN "HEAVYWEIGHT"
    ELSE IF weight > 166 THEN "MIDDLEWEIGHT"
    ELSE IF weight > 133 THEN "LIGHTWEIGHT"
    ELSE IF weight > 125 THEN "FEATHERWEIGHT"
    ELSE "InvalidInput"

\* The class of a weight, or "InvalidInput" where the code raises ValueError.
get_weight_class(weight) ==
    IF weight >= 203 THEN "HEAVYWEIGHT"
    ELSE IF weight >= 166 THEN "MIDDLEWEIGHT"
    ELSE IF weight >= 133 THEN "LIGHTWEIGHT"
    ELSE IF weight >= 125 THEN "FEATHERWEIGHT"
    ELSE "InvalidInput"

\* The dataclass: the six columns a lookup selects, and the weight class
\* __post_init__ derives.
Boxer_without_post_init(row) ==
    [id |-> row.id, name |-> row.name, weight |-> row.weight,
     height |-> row.height, reach |-> row.reach, age |-> row.age,
     weight_class |-> "None"]

Boxer(row) ==
    [id |-> row.id, name |-> row.name, weight |-> row.weight,
     height |-> row.height, reach |-> row.reach, age |-> row.age,
     weight_class |-> get_weight_class(row.weight)]

\* The field the validation of create_boxer rejects, "" when it rejects none.
InvalidField_age_exclusive(a) ==
    IF a.weight < 125 THEN "weight"
    ELSE IF a.height <= 0 THEN "height"
    ELSE IF a.reach <= 0 THEN "reach"
    ELSE IF ~(18 < a.age /\ a.age < 40) THEN "age"
    ELSE ""

InvalidField(a) ==
    IF a.weight < 125 THEN "weight"
    ELSE IF a.height <= 0 THEN "height"
    ELSE IF a.reach <= 0 THEN "reach"
    ELSE IF ~(18 <= a.age /\ a.age <= 40) THEN "age"
    ELSE ""

create_boxer_no_name_check(t, nid, a) ==
    IF InvalidField(a) # ""
    THEN [err |-> "InvalidInput", field |-> InvalidField(a),
          boxers |-> t, nextId |-> nid]
    ELSE [err |-> "none", field |-> "",
          boxers |-> t \cup { [id |-> nid, name |-> a.name, weight |-> a.weight,
                               height |-> a.height, reach |-> a.reach, age |-> a.age,
                               fights |-> ColumnDefaults.fights,
                               wins |-> ColumnDefaults.wins] },
          nextId |-> nid + 1]

\* nid is the id the storage gives the inserted row: the next of a counter,
\* so that no id is given twice.
create_boxer(t, nid, a) ==
    IF InvalidField(a) # ""
    THEN [err |-> "InvalidInput", field |-> InvalidField(a),
          boxers |-> t, nextId |-> nid]
    ELSE IF HasName(t, a.name)
    THEN [err |-> "DuplicateEntity", field |-> "", boxers |-> t, nextId |-> nid]
    ELSE [err |-> "none", field |-> "",
          boxers |-> t \cup { [id |-> nid, name |-> a.name, weight |-> a.weight,
                               height |-> a.height, reach |-> a.reach, age |-> a.age,
                               fights |-> ColumnDefaults.fights,
                               wins |-> ColumnDefaults.wins] },
          nextId |-> nid + 1]

delete_boxer_drops_all(t, id) ==
    IF ~HasId(t, id)
    THEN [err |-> "NotFound", boxers |-> t]
    ELSE [err |-> "none", boxers |-> {}]

delete_boxer(t, id) ==
    IF ~HasId(t, id)
    THEN [err |-> "NotFound", boxers |-> t]
    ELSE [err |-> "none", boxers |-> {b \in t : b.id # id}]

gret_boxer_by_id_any_row(t, id) ==
    IF HasId(t, id)
    THEN [err |-> "none", boxer |-> Boxer(CHOOSE b \in t : TRUE)]
    ELSE [err |-> "NotFound"]

gret_boxer_by_id(t, id) ==
    IF HasId(t, id)
    THEN [err |-> "none", boxer |-> Boxer(RowOf(t, id))]
    ELSE [err |-> "NotFound"]

RowNamed(t, name) == CHOOSE b \in t : b.name = name

get_boxer_by_name(t, name) ==
    IF HasName(t, name)
    THEN [err |-> "none", boxer |-> Boxer(RowNamed(t, name))]
    ELSE [err |-> "NotFound"]

update_boxer_stats_loss_counts_win(t, id, result) ==
    IF result \notin {"win", "loss"}
    THEN [err |-> "InvalidInput", boxers |-> t]
    ELSE IF ~HasId(t, id)
    THEN [err |-> "NotFound", boxers |-> t]
    ELSE [err |-> "none",
          boxers |-> { IF b.id = id
                       THEN IF result = "win"
                            THEN [b EXCEPT !.fights = @ + 1, !.wins = @ + 1]
                            ELSE [b EXCEPT !.wins = @ + 1]
                       ELSE b : b \in t }]

update_boxer_stats_win_skips_fights(t, id, result) ==
    IF result \notin {"win", "loss"}
    THEN [err |-> "InvalidInput", boxers |-> t]
    ELSE IF ~HasId(t, id)
    THEN [err |-> "NotFound", boxers |-> t]
    ELSE [err |-> "none",
          boxers |-> { IF b.id = id
                       THEN IF result = "win"
                            THEN [b EXCEPT !.wins = @ + 1]
                            ELSE [b EXCEPT !.fights = @ + 1]
                       ELSE b : b \in t }]

update_boxer_stats_no_lookup(t, id, result) ==
    IF result \notin {"win", "loss"}
    THEN [err |-> "InvalidInput", boxers |-> t]
    ELSE [err |-> "none",
          boxers |-> { IF b.id = id
                       THEN IF result = "win"
                            THEN [b EXCEPT !.fights = @ + 1, !.wins = @ + 1]
                            ELSE [b EXCEPT !.fights = @ + 1]
                       ELSE b : b \in t }]

update_boxer_stats(t, id, result) ==
    IF result \notin {"win", "loss"}
    THEN [err |-> "InvalidInput", boxers |-> t]
    ELSE IF ~HasId(t, id)
    THEN [err |-> "NotFound", boxers |-> t]
    ELSE [err |-> "none",
          boxers |-> { IF b.id = id
                       THEN IF result = "win"
                            THEN [b EXCEPT !.fights = @ + 1, !.wins = @ + 1]
                            ELSE [b EXCEPT !.fights = @ + 1]
                       ELSE b : b \in t }]

UpdateStatement_from_what_was_read(row, seen, result) ==
    IF result = "win"
    THEN [row EXCEPT !.fights = seen.fights + 1, !.wins = seen.wins + 1]
    ELSE [row EXCEPT !.fights = seen.fights + 1]

\* The one UPDATE statement of update_boxer_stats, on the row as it is
\* stored when the statement runs: SET fights = fights + 1 (and wins =
\* wins + 1 for a win) adds to the stored counters. seen is the row as it
\* was when the call's SELECT ran; the statement takes nothing from it.
UpdateStatement(row, seen, result) ==
    IF result = "win"
    THEN [row EXCEPT !.fights = @ + 1, !.wins = @ + 1]
    ELSE [row EXCEPT !.fights = @ + 1]

\* The storage lets one connection at a time write: call p may run its
\* UPDATE when no other call's transaction holds the write lock w.
CanWrite(w, p) == w \in {0, p}

\* WHERE fights > 0.
Selected(t) == {b \in t : b.fights > 0}

InOrder_ignores_sort_by(a, b, sort_by) == a.wins >= b.wins

\* ORDER BY wins DESC, or ORDER BY win_pct DESC with win_pct the quotient
\* wins * 1.0 / fights: a may come before b. Two quotients of small
\* integers compare as the cross products do.
InOrder(a, b, sort_by) ==
    IF sort_by = "win_pct"
    THEN a.wins * b.fights >= b.wins * a.fights
    ELSE a.wins >= b.wins

\* The orders the query may give the selected rows in: the ORDER BY fixes
\* the order of rows of different keys and leaves that of equal keys open.
Orderings(rows, sort_by) ==
    { s \in [1 .. Cardinality(rows) -> rows] :
        \A i, j \in 1 .. Cardinality(rows) :
            i < j => (s[i] # s[j] /\ InOrder(s[i], s[j], sort_by)) }

\* Ten times round(win_pct * 100, 1): the percentage in tenths, the nearest
\* tenth to 1000 * wins / fights.
RoundedPct(wins, fights) == (2000 * wins + fights) \div (2 * fights)

\* The dict get_leaderboard builds of a row.
LeaderboardEntry(row) ==
    [id |-> row.id, name |-> row.name, weight |-> row.weight,
     height |-> row.height, reach |-> row.reach, age |-> row.age,
     weight_class |-> get_weight_class(row.weight),
     fights |-> row.fights, wins |-> row.wins,
     win_pct |-> RoundedPct(row.wins, row.fights)]

\* boards: the lists the call may return.
get_leaderboard(t, sort_by) ==
    IF sort_by \notin {"win_pct", "wins"}
    THEN [err |-> "InvalidInput", boards |-> {}]
    ELSE [err |-> "none",
          boards |-> { [i \in 1 .. Cardinality(Selected(t))
                           |-> LeaderboardEntry(s[i])]
                       : s \in Orderings(Selected(t), sort_by) }]

\* ------------------------------------------------------------------ ring

get_fighting_skill_thresholds_inclusive(boxer) ==
    LET age_modifier == IF boxer.age <= 25 THEN -1
                        ELSE IF boxer.age >= 35 THEN -2 ELSE 0
    IN  10 * (boxer.weight * Len(boxer.name)) + boxer.reach + 10 * age_modifier

\* Ten times the skill: reach / 10 is the one fraction in it.
get_fighting_skill(boxer) ==
    LET age_modifier == IF boxer.age < 25 THEN -1
                        ELSE IF boxer.age > 35 THEN -2 ELSE 0
    IN  10 * (boxer.weight * Len(boxer.name)) + boxer.reach + 10 * age_modifier

\* 1000 * e^(d/10), rounded down at each tenth.
RECURSIVE ExpTenths(_)
ExpTenths(d) == IF d = 0 THEN 1000 ELSE (ExpTenths(d - 1) * 1105) \div 1000

\* random_number < normalized_delta, for the draw k/RGrid and delta = d/10:
\* k/RGrid < 1 / (1 + e^(-delta))  iff  k * (e^delta + 1) < RGrid * e^delta.
\* From delta = 6 on, 1 / (1 + e^(-delta)) > 0.997 exceeds every draw.
BelowNormalizedDelta_inclusive(k, d) ==
    IF d >= 60 THEN TRUE
    ELSE k * (ExpTenths(d) + 1000) <= RGrid * ExpTenths(d)

BelowNormalizedDelta(k, d) ==
    IF d >= 60 THEN TRUE
    ELSE k * (ExpTenths(d) + 1000) < RGrid * ExpTenths(d)

Abs(x) == IF x < 0 THEN -x ELSE x

clear_ring_removes_one(rg) == IF rg = <<>> THEN rg ELSE Tail(rg)

\* An empty ring is returned as it is; any other is emptied.
clear_ring(rg) == IF rg = <<>> THEN rg ELSE <<>>

\* isinstance(boxer, Boxer): the value has the dataclass's fields.
IsBoxer(x) == "weight_class" \in DOMAIN x

enter_ring_off_by_one(rg, boxer) ==
    IF ~IsBoxer(boxer) THEN [err |-> "InvalidInput", ring |-> rg]
    ELSE IF Len(rg) > 2 THEN [err |-> "CapacityExceeded", ring |-> rg]
    ELSE [err |-> "none", ring |-> Append(rg, boxer)]

enter_ring_capacity_first(rg, boxer) ==
    IF Len(rg) >= 2 THEN [err |-> "CapacityExceeded", ring |-> rg]
    ELSE IF ~IsBoxer(boxer) THEN [err |-> "InvalidInput", ring |-> rg]
    ELSE [err |-> "none", ring |-> Append(rg, boxer)]

enter_ring_rejects_duplicate(rg, boxer) ==
    IF ~IsBoxer(boxer) THEN [err |-> "InvalidInput", ring |-> rg]
    ELSE IF Len(rg) >= 2 THEN [err |-> "CapacityExceeded", ring |-> rg]
    ELSE IF \E i \in 1 .. Len(rg) : rg[i].id = boxer.id
    THEN [err |-> "DuplicateEntity", ring |-> rg]
    ELSE [err |-> "none", ring |-> Append(rg, boxer)]

enter_ring(rg, boxer) ==
    IF ~IsBoxer(boxer) THEN [err |-> "InvalidInput", ring |-> rg]
    ELSE IF Len(rg) >= 2 THEN [err |-> "CapacityExceeded", ring |-> rg]
    ELSE [err |-> "none", ring |-> Append(rg, boxer)]

get_boxers(rg) == [err |-> "none", list |-> rg]

\* The slot (1 or 2) of the boxer fight() makes the winner.
WinnerSlot(rg, k) ==
    LET skill_1 == get_fighting_skill(rg[1])
        skill_2 == get_fighting_skill(rg[2])
        delta == Abs(skill_1 - skill_2)
    IN  IF BelowNormalizedDelta(k, delta) THEN 1 ELSE 2

fight_clears_on_refusal(rg, t, k) ==
    IF Len(rg) < 2
    THEN [err |-> "InvalidState", name |-> "", ring |-> clear_ring(rg), boxers |-> t]
    ELSE LET slot == WinnerSlot(get_boxers(rg).list, k)
             winner == rg[slot]
             loser == rg[3 - slot]
             won == update_boxer_stats(t, winner.id, "win")
             lost == update_boxer_stats(won.boxers, loser.id, "loss")
         IN  IF won.err # "none"
             THEN [err |-> won.err, name |-> "", ring |-> rg, boxers |-> t]
             ELSE IF lost.err # "none"
             THEN [err |-> lost.err, name |-> "", ring |-> rg, boxers |-> won.boxers]
             ELSE [err |-> "none", name |-> winner.name,
                   ring |-> clear_ring(rg), boxers |-> lost.boxers]

fight_updates_winner_twice(rg, t, k) ==
    IF Len(rg) < 2
    THEN [err |-> "InvalidState", name |-> "", ring |-> rg, boxers |-> t]
    ELSE LET slot == WinnerSlot(get_boxers(rg).list, k)
             winner == rg[slot]
             loser == rg[3 - slot]
             won == update_boxer_stats(t, winner.id, "win")
             lost == update_boxer_stats(won.boxers, winner.id, "loss")
         IN  IF won.err # "none"
             THEN [err |-> won.err, name |-> "", ring |-> rg, boxers |-> t]
             ELSE IF lost.err # "none"
             THEN [err |-> lost.err, name |-> "", ring |-> rg, boxers |-> won.boxers]
             ELSE [err |-> "none", name |-> winner.name,
                   ring |-> clear_ring(rg), boxers |-> lost.boxers]

fight_same_boxer_once(rg, t, k) ==
    IF Len(rg) < 2
    THEN [err |-> "InvalidState", name |-> "", ring |-> rg, boxers |-> t]
    ELSE LET slot == WinnerSlot(get_boxers(rg).list, k)
             winner == rg[slot]
             loser == rg[3 - slot]
             won == update_boxer_stats(t, winner.id, "win")
             lost == IF loser.id = winner.id THEN won
                     ELSE update_boxer_stats(won.boxers, loser.id, "loss")
         IN  IF won.err # "none"
             THEN [err |-> won.err, name |-> "", ring |-> rg, boxers |-> t]
             ELSE IF lost.err # "none"
             THEN [err |-> lost.err, name |-> "", ring |-> rg, boxers |-> won.boxers]
             ELSE [err |-> "none", name |-> winner.name,
                   ring |-> clear_ring(rg), boxers |-> lost.boxers]

fight_skips_loser(rg, t, k) ==
    IF Len(rg) < 2
    THEN [err |-> "InvalidState", name |-> "", ring |-> rg, boxers |-> t]
    ELSE LET slot == WinnerSlot(get_boxers(rg).list, k)
             winner == rg[slot]
             won == update_boxer_stats(t, winner.id, "win")
         IN  IF won.err # "none"
             THEN [err |-> won.err, name |-> "", ring |-> rg, boxers |-> t]
             ELSE [err |-> "none", name |-> winner.name,
                   ring |-> clear_ring(rg), boxers |-> won.boxers]

fight(rg, t, k) ==
    IF Len(rg) < 2
    THEN [err |-> "InvalidState", name |-> "", ring |-> rg, boxers |-> t]
    ELSE LET slot == WinnerSlot(get_boxers(rg).list, k)
             winner == rg[slot]
             loser == rg[3 - slot]
             won == update_boxer_stats(t, winner.id, "win")
             lost == update_boxer_stats(won.boxers, loser.id, "loss")
         IN  IF won.err # "none"
             THEN [err |-> won.err, name |-> "", ring |-> rg, boxers |-> t]
             ELSE IF lost.err # "none"
             THEN [err |-> lost.err, name |-> "", ring |-> rg, boxers |-> won.boxers]
             ELSE [err |-> "none", name |-> winner.name,
                   ring |-> clear_ring(rg), boxers |-> lost.boxers]

\* ------------------------------------------------------------------ actions

NoArgs == [name |-> "", weight |-> 0, height |-> 0, reach |-> 0, age |-> 0]

NoCall == [op |-> "init", err |-> "none", id |-> 0, result |-> "", name |-> "",
           r |-> 0, entrants |-> <<>>, args |-> NoArgs, field |-> "",
           boxer |-> <<>>, class |-> "", sort_by |-> "", board |-> <<>>,
           skill |-> 0]

Called(op, err) == [NoCall EXCEPT !.op = op, !.err = err]

RECURSIVE TotalFights(_)
TotalFights(t) ==
    IF t = {} THEN 0
    ELSE LET b == CHOOSE x \in t : TRUE IN b.fights + TotalFights(t \ {b})

WithinBounds(t) == TotalFights(t) <= MaxFights

Init ==
    /\ boxers = {}
    /\ nextId = 1
    /\ ring = <<>>
    /\ last = NoCall
    /\ disciplines = {}
    /\ calls = <<>>
    /\ writer = 0
    /\ uncommitted = {}

CreateBoxerFrom(inputs) ==
    \E a \in inputs :
        LET res == create_boxer(boxers, nextId, a)
        IN  /\ res.nextId <= MaxId + 1
            /\ boxers' = res.boxers
            /\ nextId' = res.nextId
            /\ last' = [Called("create_boxer", res.err)
                           EXCEPT !.name = a.name, !.args = a, !.field = res.field]
            /\ UNCHANGED <<ring, disciplines, connections>>

CreateBoxer == CreateBoxerFrom(CreateInputs)

\* create_boxer alone, over the grid of arguments.
CreateBoxerGrid == CreateBoxerFrom(CreateGrid)

DeleteBoxer_evicts_from_ring ==
    \E id \in IdInputs :
        LET res == delete_boxer(boxers, id)
        IN  /\ boxers' = res.boxers
            /\ ring' = SelectSeq(ring, LAMBDA b : HasId(res.boxers, b.id))
            /\ last' = [Called("delete_boxer", res.err) EXCEPT !.id = id]
            /\ UNCHANGED <<nextId, disciplines, connections>>

DeleteBoxer ==
    \E id \in IdInputs :
        LET res == delete_boxer(boxers, id)
        IN  /\ boxers' = res.boxers
            /\ last' = [Called("delete_boxer", res.err) EXCEPT !.id = id]
            /\ UNCHANGED <<nextId, ring, disciplines, connections>>

\* last.boxer holds the Boxer a lookup returned, and nothing when it raised.
GetBoxerById ==
    \E id \in IdInputs :
        LET res == gret_boxer_by_id(boxers, id)
        IN  /\ last' = [Called("gret_boxer_by_id", res.err)
                           EXCEPT !.id = id,
                                  !.boxer = IF res.err = "none"
                                            THEN <<res.boxer>> ELSE <<>>]
            /\ UNCHANGED <<boxers, nextId, ring, disciplines, connections>>

GetBoxerByName ==
    \E name \in NameInputs :
        LET res == get_boxer_by_name(boxers, name)
        IN  /\ last' = [Called("get_boxer_by_name", res.err)
                           EXCEPT !.name = name,
                                  !.boxer = IF res.err = "none"
                                            THEN <<res.boxer>> ELSE <<>>]
            /\ UNCHANGED <<boxers, nextId, ring, disciplines, connections>>

UpdateBoxerStats ==
    \E id \in IdInputs, result \in ResultInputs :
        LET res == update_boxer_stats(boxers, id, result)
        IN  /\ WithinBounds(res.boxers)
            /\ boxers' = res.boxers
            /\ last' = [Called("update_boxer_stats", res.err)
                           EXCEPT !.id = id, !.result = result]
            /\ UNCHANGED <<nextId, ring, disciplines, connections>>

\* The caller enters a boxer it has looked up in the catalog, or a value
\* that is no Boxer.
EnterRing ==
    \E x \in {gret_boxer_by_id(boxers, id).boxer : id \in {b.id : b \in boxers}}
             \cup {NonBoxer} :
        LET res == enter_ring(ring, x)
        IN  /\ ring' = res.ring
            /\ last' = [Called("enter_ring", res.err)
                           EXCEPT !.id = IF IsBoxer(x) THEN x.id ELSE 0]
            /\ UNCHANGED <<boxers, nextId, disciplines, connections>>

\* last.entrants holds the ring as the call found it.
ClearRing ==
    /\ ring' = clear_ring(ring)
    /\ last' = [Called("clear_ring", "none") EXCEPT !.entrants = ring]
    /\ UNCHANGED <<boxers, nextId, disciplines, connections>>

GetBoxers ==
    LET res == get_boxers(ring)
    IN  /\ last' = Called("get_boxers", res.err)
        /\ UNCHANGED <<boxers, nextId, ring, disciplines, connections>>

\* Of a fight that failed on the stat update of exactly one of two boxers:
\* whether the other boxer's update was applied.
Discipline(rg, t, res) ==
    IF /\ Len(rg) = 2
       /\ res.err = "NotFound"
       /\ rg[1].id # rg[2].id
       /\ HasId(t, rg[1].id) # HasId(t, rg[2].id)
    THEN IF res.boxers = t THEN {"neither_applied"} ELSE {"other_applied"}
    ELSE {}

\* fight(), as long as the fights counters stay within cap in sum.
FightWithin(cap) ==
    \E k \in Draws :
        LET res == fight(ring, boxers, k)
        IN  /\ TotalFights(res.boxers) <= cap
            /\ boxers' = res.boxers
            /\ ring' = res.ring
            /\ last' = [Called("fight", res.err)
                           EXCEPT !.name = res.name, !.r = k, !.entrants = ring]
            /\ disciplines' = disciplines \cup Discipline(ring, boxers, res)
            /\ UNCHANGED <<nextId, connections>>

Fight == FightWithin(MaxFights)

Next ==
    \/ CreateBoxer
    \/ DeleteBoxer
    \/ UpdateBoxerStats
    \/ EnterRing
    \/ ClearRing
    \/ GetBoxers
    \/ Fight

Spec == Init /\ [][Next]_vars

\* The catalog with its two lookups, and the ring filled from it: the
\* operations of Spec but the fight, whose counters update_boxer_stats
\* reaches as well.
NextLookup ==
    \/ CreateBoxer
    \/ DeleteBoxer
    \/ GetBoxerById
    \/ GetBoxerByName
    \/ UpdateBoxerStats
    \/ EnterRing
    \/ ClearRing

SpecLookup == Init /\ [][NextLookup]_vars

\* The ring next to the catalog, without the fight: every operation that
\* acts on one of the two only.
NextRing ==
    \/ CreateBoxer
    \/ DeleteBoxer
    \/ UpdateBoxerStats
    \/ EnterRing
    \/ ClearRing
    \/ GetBoxers

SpecRing == Init /\ [][NextRing]_vars

NextCreate == CreateBoxerGrid

SpecCreate == Init /\ [][NextCreate]_vars

\* get_weight_class alone, over WeightInputs: last.class is the class it
\* returned, and "" when it raised.
GetWeightClass ==
    \E w \in WeightInputs :
        LET res == get_weight_class(w)
            err == IF res = "InvalidInput" THEN "InvalidInput" ELSE "none"
        IN  /\ last' = [Called("get_weight_class", err)
                           EXCEPT !.args.weight = w,
                                  !.class = IF err = "none" THEN res ELSE ""]
            /\ UNCHANGED <<boxers, nextId, ring, disciplines, connections>>

NextWeightClass == GetWeightClass

SpecWeightClass == Init /\ [][NextWeightClass]_vars

\* The catalog after creations, deletions and recorded results: one of
\* LeaderboardTables. The ring is empty.
InitLeaderboard ==
    /\ boxers \in LeaderboardTables
    /\ nextId = Len(LeaderboardArgs) + 1
    /\ ring = <<>>
    /\ last = NoCall
    /\ disciplines = {}
    /\ calls = <<>>
    /\ writer = 0
    /\ uncommitted = {}

\* last.board holds the list get_leaderboard returned.
GetLeaderboard ==
    \E sort_by \in SortInputs :
        LET res == get_leaderboard(boxers, sort_by)
        IN  /\ IF res.err = "none"
               THEN \E board \in res.boards :
                        last' = [Called("get_leaderboard", "none")
                                    EXCEPT !.sort_by = sort_by, !.board = board]
               ELSE last' = [Called("get_leaderboard", res.err)
                                EXCEPT !.sort_by = sort_by]
            /\ UNCHANGED <<boxers, nextId, ring, disciplines, connections>>

NextLeaderboard == GetLeaderboard

SpecLeaderboard == InitLeaderboard /\ [][NextLeaderboard]_vars

\* update_boxer_stats called by several actors at once, each call on a
\* connection of its own, all for the boxer of id 1.
Procs == 1 .. NProcs

\* The catalog the calls start from: "Al" with one win recorded, "Bo" with
\* no fight.
ConcurrentTable ==
    LET al == create_boxer({}, 1, LeaderboardArgs[1])
        bo == create_boxer(al.boxers, al.nextId, LeaderboardArgs[2])
    IN  update_boxer_stats(bo.boxers, 1, "win").boxers

NewCall(result) ==
    [pc |-> "called", id |-> 1, result |-> result, seen |-> <<>>,
     err |-> "none"]

InitConcurrent ==
    /\ boxers = ConcurrentTable
    /\ nextId = Cardinality(ConcurrentTable) + 1
    /\ ring = <<>>
    /\ last = NoCall
    /\ disciplines = {}
    /\ calls \in [Procs -> {NewCall(result) : result \in ResultInputs}]
    /\ writer = 0
    /\ uncommitted = {}

\* The check of result, before the call connects.
CheckResult(p) ==
    /\ calls[p].pc = "called"
    /\ calls' = [calls EXCEPT
                    ![p] = IF calls[p].result \notin {"win", "loss"}
                           THEN [@ EXCEPT !.pc = "raised", !.err = "InvalidInput"]
                           ELSE [@ EXCEPT !.pc = "connected"]]
    /\ UNCHANGED <<boxers, nextId, ring, last, disciplines, writer, uncommitted>>

\* SELECT id FROM boxers WHERE id = ?: it reads the committed table.
SelectId(p) ==
    /\ calls[p].pc = "connected"
    /\ calls' = [calls EXCEPT
                    ![p] = IF ~HasId(boxers, calls[p].id)
                           THEN [@ EXCEPT !.pc = "raised", !.err = "NotFound"]
                           ELSE [@ EXCEPT !.pc = "selected",
                                          !.seen = <<RowOf(boxers, calls[p].id)>>]]
    /\ UNCHANGED <<boxers, nextId, ring, last, disciplines, writer, uncommitted>>

\* The UPDATE: it opens the call's transaction, which takes the write
\* lock, and changes the row in that transaction.
Update(p) ==
    /\ calls[p].pc = "selected"
    /\ CanWrite(writer, p)
    /\ writer' = p
    /\ uncommitted' = { IF b.id = calls[p].id
                        THEN UpdateStatement(b, calls[p].seen[1], calls[p].result)
                        ELSE b : b \in boxers }
    /\ calls' = [calls EXCEPT ![p].pc = "updated"]
    /\ UNCHANGED <<boxers, nextId, ring, last, disciplines>>

\* The UPDATE while another call holds the write lock: the call waits, and
\* when its wait runs out the storage's error is raised to the caller.
UpdateLocked(p) ==
    /\ calls[p].pc = "selected"
    /\ ~CanWrite(writer, p)
    /\ calls' = [calls EXCEPT ![p].pc = "raised", ![p].err = "StorageFailure"]
    /\ UNCHANGED <<boxers, nextId, ring, last, disciplines, writer, uncommitted>>

\* conn.commit(): the transaction's table becomes the committed one and
\* the write lock is free.
Commit(p) ==
    /\ calls[p].pc = "updated"
    /\ writer = p
    /\ boxers' = uncommitted
    /\ writer' = 0
    /\ uncommitted' = {}
    /\ calls' = [calls EXCEPT ![p].pc = "returned"]
    /\ UNCHANGED <<nextId, ring, last, disciplines>>

NextConcurrent ==
    \/ \E p \in Procs : CheckResult(p)
    \/ \E p \in Procs : SelectId(p)
    \/ \E p \in Procs : Update(p)
    \/ \E p \in Procs : UpdateLocked(p)
    \/ \E p \in Procs : Commit(p)

SpecConcurrent == InitConcurrent /\ [][NextConcurrent]_vars

\* get_fighting_skill alone, over the Boxers of SkillRows, of a RingModel
\* that holds no, one or two boxers of a catalog with two rows: last.boxer
\* is the argument and last.skill ten times the skill returned.
InitSkill ==
    /\ boxers = ConcurrentTable
    /\ nextId = Cardinality(ConcurrentTable) + 1
    /\ ring \in { SubSeq(<<Boxer(RowOf(ConcurrentTable, 1)),
                           Boxer(RowOf(ConcurrentTable, 2))>>, 1, n)
                   : n \in 0 .. 2 }
    /\ last = NoCall
    /\ disciplines = {}
    /\ calls = <<>>
    /\ writer = 0
    /\ uncommitted = {}

GetFightingSkill ==
    \E row \in SkillRows :
        /\ last' = [Called("get_fighting_skill", "none")
                       EXCEPT !.boxer = <<Boxer(row)>>,
                              !.skill = get_fighting_skill(Boxer(row))]
        /\ UNCHANGED <<boxers, nextId, ring, disciplines, connections>>

NextSkill == GetFightingSkill

SpecSkill == InitSkill /\ [][NextSkill]_vars

\* A ring left to itself: the ring's operations on a catalog of three
\* boxers none of whom has fought, with no call of the catalog from
\* outside the ring.
TournamentTable ==
    { [id |-> i, name |-> LeaderboardArgs[i].name,
       weight |-> LeaderboardArgs[i].weight,
       height |-> LeaderboardArgs[i].height,
       reach |-> LeaderboardArgs[i].reach, age |-> LeaderboardArgs[i].age,
       fights |-> 0, wins |-> 0] : i \in 1 .. Len(LeaderboardArgs) }

InitTournament ==
    /\ boxers = TournamentTable
    /\ nextId = Cardinality(TournamentTable) + 1
    /\ ring = <<>>
    /\ last = NoCall
    /\ disciplines = {}
    /\ calls = <<>>
    /\ writer = 0
    /\ uncommitted = {}

TournamentFight == FightWithin(2 * MaxRounds)

NextTournament ==
    \/ EnterRing
    \/ ClearRing
    \/ GetBoxers
    \/ TournamentFight

SpecTournament == InitTournament /\ [][NextTournament]_vars

\* ------------------------------------------------------------------ claims

OtherRows(t, ids) == {b \in t : b.id \notin ids}

\* C1: the ring holds 0, 1 or 2 boxers in every state, and enter_ring of a
\* Boxer on a ring that holds 2 raises CapacityExceeded and leaves the ring
\* as it was.
C1_RingCapacity ==
    /\ Len(ring) \in {0, 1, 2}
    /\ [][ /\ Len(ring') \in {0, 1, 2}
           /\ (last'.op = "enter_ring" /\ last'.id # 0 /\ Len(ring) = 2)
                  => (last'.err = "CapacityExceeded" /\ ring' = ring) ]_vars

\* An enter_ring of a Boxer was refused on a full ring.
C1_Witness ==
    /\ last.op = "enter_ring"
    /\ last.id # 0
    /\ last.err = "CapacityExceeded"
    /\ Len(ring) = 2

\* C2: every row of the table has wins <= fights (and neither is negative),
\* from its creation on and after every update_boxer_stats, direct or by
\* fight().
C2_WinsAtMostFights ==
    \A b \in boxers : 0 <= b.wins /\ b.wins <= b.fights

\* After a fight one row has won its one fight and another has lost its one.
C2_Witness ==
    /\ last.op = "fight"
    /\ last.err = "none"
    /\ \E w \in boxers, l \in boxers :
           /\ w.fights = 1 /\ w.wins = 1
           /\ l.fights = 1 /\ l.wins = 0

\* C3: a fight() that returns, on two boxers of different ids that are both
\* in the table, adds 1 to the fights and the wins of one of them, adds 1 to
\* the fights only of the other, changes no other row, and returns the name
\* of the one whose wins grew.
C3_FightRecordsWinAndLoss ==
    [][ ( /\ last'.op = "fight"
          /\ last'.err = "none"
          /\ Len(ring) = 2
          /\ ring[1].id # ring[2].id
          /\ HasId(boxers, ring[1].id)
          /\ HasId(boxers, ring[2].id) )
        => \E slot \in {1, 2} :
               LET winner == ring[slot]
                   loser == ring[3 - slot]
                   w == RowOf(boxers, winner.id)
                   l == RowOf(boxers, loser.id)
               IN  /\ last'.name = winner.name
                   /\ HasId(boxers', winner.id)
                   /\ HasId(boxers', loser.id)
                   /\ RowOf(boxers', winner.id)
                          = [w EXCEPT !.fights = @ + 1, !.wins = @ + 1]
                   /\ RowOf(boxers', loser.id) = [l EXCEPT !.fights = @ + 1]
                   /\ OtherRows(boxers', {winner.id, loser.id})
                          = OtherRows(boxers, {winner.id, loser.id}) ]_vars

\* A fight between two boxers of different ids returned the winner's name.
C3_Witness ==
    /\ last.op = "fight"
    /\ last.err = "none"
    /\ last.entrants[1].id # last.entrants[2].id
    /\ \E w \in boxers, l \in boxers :
           /\ w.id # l.id
           /\ {w.id, l.id} = {last.entrants[1].id, last.entrants[2].id}
           /\ w.name = last.name
           /\ w.fights = 1 /\ w.wins = 1
           /\ l.fights = 1 /\ l.wins = 0

\* C4: fight() on a ring of 0 or 1 boxers raises InvalidState, changes no
\* row of the table and leaves the ring as it was.
C4_FightNeedsTwo ==
    [][ (last'.op = "fight" /\ Len(ring) < 2)
        => /\ last'.err = "InvalidState"
           /\ boxers' = boxers
           /\ ring' = ring ]_vars

\* A fight was refused on a ring of one boxer.
C4_Witness ==
    /\ last.op = "fight"
    /\ last.err = "InvalidState"
    /\ Len(ring) = 1
    /\ boxers # {}

\* C5: whenever a fight() called on a ring of two boxers has finished, the
\* ring holds no boxer.
C5_RingClearedAfterFight ==
    (last.op = "fight" /\ Len(last.entrants) = 2) => ring = <<>>

\* C6: over all the fights that failed on the stat update of one of the two
\* boxers, one discipline holds: the other boxer's update is applied in all
\* of them, or in none of them.
C6_OneDiscipline ==
    Cardinality(disciplines) <= 1

\* C7: with two boxers of unequal skill in the ring, the draws that make the
\* boxer of higher skill the winner are at least as many as the draws that
\* make the other one the winner, in either order of entry.
C7_BiasTowardHigherSkill ==
    (Len(ring) = 2 /\ get_fighting_skill(ring[1]) # get_fighting_skill(ring[2]))
    => LET higher == IF get_fighting_skill(ring[1]) > get_fighting_skill(ring[2])
                     THEN 1 ELSE 2
       IN  Cardinality({k \in Draws : WinnerSlot(ring, k) = higher})
               >= Cardinality({k \in Draws : WinnerSlot(ring, k) = 3 - higher})

\* C8: in a fight() that returns, on two boxers of different ids and equal
\* skill, the first entered is the winner (its name is returned, its wins
\* grow by 1) for every draw below 1/2 and the second entered for every
\* draw from 1/2 on.
C8_EqualSkillSplitsAtHalf ==
    [][ ( /\ last'.op = "fight"
          /\ last'.err = "none"
          /\ Len(ring) = 2
          /\ ring[1].id # ring[2].id
          /\ get_fighting_skill(ring[1]) = get_fighting_skill(ring[2]) )
        => LET slot == IF 2 * last'.r < RGrid THEN 1 ELSE 2
               winner == ring[slot]
           IN  /\ last'.name = winner.name
               /\ RowOf(boxers', winner.id).wins
                      = RowOf(boxers, winner.id).wins + 1
               /\ RowOf(boxers', ring[3 - slot].id).wins
                      = RowOf(boxers, ring[3 - slot].id).wins ]_vars

\* A fight of two boxers of equal skill drew exactly 1/2 or more and the
\* second entered won; its name differs from the first's.
C8_Witness ==
    /\ last.op = "fight"
    /\ last.err = "none"
    /\ last.entrants[1].id # last.entrants[2].id
    /\ last.entrants[1].name # last.entrants[2].name
    /\ get_fighting_skill(last.entrants[1]) = get_fighting_skill(last.entrants[2])
    /\ 2 * last.r >= RGrid
    /\ last.name = last.entrants[2].name

\* C9: get_boxers() on a ring that holds no boxer raises InvalidState.
C9_ListEmptyRingFails ==
    (last.op = "get_boxers" /\ ring = <<>>) => last.err = "InvalidState"

\* C10: update_boxer_stats(id, "win") on a row of the table adds 1 to its
\* fights and 1 to its wins; update_boxer_stats(id, "loss") adds 1 to its
\* fights and leaves its wins.
C10_RecordResult ==
    [][ ( /\ last'.op = "update_boxer_stats"
          /\ last'.result \in {"win", "loss"}
          /\ HasId(boxers, last'.id) )
        => LET b == RowOf(boxers, last'.id)
           IN  /\ last'.err = "none"
               /\ HasId(boxers', last'.id)
               /\ RowOf(boxers', last'.id).fights = b.fights + 1
               /\ RowOf(boxers', last'.id).wins
                      = IF last'.result = "win" THEN b.wins + 1 ELSE b.wins ]_vars

\* A direct update_boxer_stats recorded a loss on a row that had won before.
C10_Witness ==
    /\ last.op = "update_boxer_stats"
    /\ last.err = "none"
    /\ last.result = "loss"
    /\ HasId(boxers, last.id)
    /\ RowOf(boxers, last.id).fights = 2
    /\ RowOf(boxers, last.id).wins = 1

\* C11: update_boxer_stats with a result other than "win" and "loss" raises
\* InvalidInput; with "win" or "loss" and an id no row has it raises
\* NotFound; in both cases the table is left as it was.
C11_RecordResultErrors ==
    [][ last'.op = "update_boxer_stats"
        => /\ (last'.result \notin {"win", "loss"})
                  => (last'.err = "InvalidInput" /\ boxers' = boxers)
           /\ (last'.result \in {"win", "loss"} /\ ~HasId(boxers, last'.id))
                  => (last'.err = "NotFound" /\ boxers' = boxers) ]_vars

\* An update_boxer_stats for an id no row has was refused while the table
\* holds a row with a recorded fight.
C11_Witness ==
    /\ last.op = "update_boxer_stats"
    /\ last.result \in {"win", "loss"}
    /\ last.err = "NotFound"
    /\ ~HasId(boxers, last.id)
    /\ \E b \in boxers : b.fights > 0

\* The fields of a create_boxer call that are out of the ranges of the data
\* model.
OutOfRange(a) ==
    {f \in {"weight"} : a.weight < 125} \cup {f \in {"height"} : a.height <= 0}
    \cup {f \in {"reach"} : a.reach <= 0}
    \cup {f \in {"age"} : a.age < 18 \/ a.age > 40}

\* C12: create_boxer with a name a row of the table has never succeeds and
\* leaves the table as it was; with all four other fields in range it raises
\* DuplicateEntity.
C12_DuplicateName ==
    [][ (last'.op = "create_boxer" /\ HasName(boxers, last'.args.name))
        => /\ last'.err # "none"
           /\ boxers' = boxers
           /\ Cardinality(boxers') = Cardinality(boxers)
           /\ OutOfRange(last'.args) = {} => last'.err = "DuplicateEntity" ]_vars

\* A create_boxer with fields in range was refused for its name.
C12_Witness ==
    /\ last.op = "create_boxer"
    /\ last.err = "DuplicateEntity"
    /\ OutOfRange(last.args) = {}
    /\ \E b \in boxers : b.name = last.args.name

\* C13: create_boxer with weight < 125, height <= 0, reach <= 0 or an age
\* outside [18, 40] raises InvalidInput for a field that is out of range and
\* adds no row; with the four in range and a name no row has, it succeeds
\* and adds exactly one row.
C13_CreateValidation ==
    [][ last'.op = "create_boxer"
        => /\ OutOfRange(last'.args) # {}
                  => /\ last'.err = "InvalidInput"
                     /\ last'.field \in OutOfRange(last'.args)
                     /\ boxers' = boxers
           /\ (OutOfRange(last'.args) = {} /\ ~HasName(boxers, last'.args.name))
                  => /\ last'.err = "none"
                     /\ boxers \subseteq boxers'
                     /\ Cardinality(boxers') = Cardinality(boxers) + 1 ]_vars

\* A create_boxer with the age just above the range, every other field in
\* range, was refused for its age by a table that holds a row whose age is
\* on the lower end of the range.
C13_Witness ==
    /\ last.op = "create_boxer"
    /\ last.err = "InvalidInput"
    /\ last.field = "age"
    /\ last.args.age = 41
    /\ OutOfRange(last.args) = {"age"}
    /\ \E b \in boxers : b.age = 18

\* C20: every row of the table has a name that is not empty and that no
\* other row has, weight >= 125, height > 0, reach > 0 and 18 <= age <= 40.
C20_DataModelConstraints ==
    \A b \in boxers :
        /\ b.name # ""
        /\ \A c \in boxers : c.name = b.name => c = b
        /\ b.weight >= 125
        /\ b.height > 0
        /\ b.reach > 0
        /\ 18 <= b.age /\ b.age <= 40

\* The Boxer a lookup returned carries the name, weight, height, reach and
\* age of the create_boxer arguments a.
MatchesArgs(b, a) ==
    /\ b.name = a.name
    /\ b.weight = a.weight
    /\ b.height = a.height
    /\ b.reach = a.reach
    /\ b.age = a.age

\* A gret_boxer_by_id of the id just assigned follows a create_boxer that
\* succeeded.
LooksUpCreated ==
    /\ last.op = "create_boxer"
    /\ last.err = "none"
    /\ last'.op = "gret_boxer_by_id"
    /\ last'.id = nextId - 1

C15_Delete ==
    [][ last'.op = "delete_boxer"
        => /\ ~HasId(boxers, last'.id)
                  => (last'.err = "NotFound" /\ boxers' = boxers)
           /\ HasId(boxers, last'.id)
                  => /\ last'.err = "none"
                     /\ boxers' = boxers \ {RowOf(boxers, last'.id)}
                     /\ gret_boxer_by_id(boxers', last'.id).err = "NotFound"
                     /\ delete_boxer(boxers', last'.id).err = "NotFound"
                     /\ \A res \in {"win", "loss"} :
                            /\ update_boxer_stats(boxers', last'.id, res).err
                                   = "NotFound"
                            /\ update_boxer_stats(boxers', last'.id, res).boxers
                                   = boxers' ]_vars

\* A row was deleted and another row, with a recorded fight, is left.
C15_Witness ==
    /\ last.op = "delete_boxer"
    /\ last.err = "none"
    /\ ~HasId(boxers, last.id)
    /\ \E b \in boxers : b.fights > 0

\* C19: gret_boxer_by_id and get_boxer_by_name raise NotFound when no row
\* matches and otherwise return the Boxer of the matching row; every Boxer
\* they return and every Boxer in the ring has the weight class of its
\* weight.
C19_LookupAndWeightClass ==
    /\ \A i \in 1 .. Len(ring) :
           ring[i].weight_class = get_weight_class(ring[i].weight)
    /\ [][ /\ \A i \in 1 .. Len(ring') :
                  ring'[i].weight_class = get_weight_class(ring'[i].weight)
           /\ last'.op \in {"gret_boxer_by_id", "get_boxer_by_name"}
                  => LET hit == IF last'.op = "gret_boxer_by_id"
                                THEN {b \in boxers : b.id = last'.id}
                                ELSE {b \in boxers : b.name = last'.name}
                     IN  /\ hit = {} => (last'.err = "NotFound" /\ last'.boxer = <<>>)
                         /\ hit # {}
                                => /\ last'.err = "none"
                                   /\ Len(last'.boxer) = 1
                                   /\ \E row \in hit :
                                          /\ last'.boxer[1].id = row.id
                                          /\ MatchesArgs(last'.boxer[1], row)
                                   /\ last'.boxer[1].weight_class
                                          = get_weight_class(last'.boxer[1].weight)
                                   /\ last'.boxer[1].weight_class \in
                                          {"HEAVYWEIGHT", "MIDDLEWEIGHT",
                                           "LIGHTWEIGHT", "FEATHERWEIGHT"} ]_vars

\* A lookup by name returned the second row while the ring holds a Boxer.
C19_Witness ==
    /\ last.op = "get_boxer_by_name"
    /\ last.err = "none"
    /\ last.boxer[1].id = 2
    /\ last.boxer[1].weight_class = "LIGHTWEIGHT"
    /\ Len(ring) >= 1

\* C18: for every integer weight w, get_weight_class returns HEAVYWEIGHT iff
\* w >= 203, MIDDLEWEIGHT iff 166 <= w < 203, LIGHTWEIGHT iff 133 <= w < 166,
\* FEATHERWEIGHT iff 125 <= w < 133, and raises InvalidInput iff w < 125.
C18_WeightClassTable ==
    last.op = "get_weight_class"
        => LET w == last.args.weight
           IN  /\ (last.class = "HEAVYWEIGHT") <=> (w >= 203)
               /\ (last.class = "MIDDLEWEIGHT") <=> (166 <= w /\ w < 203)
               /\ (last.class = "LIGHTWEIGHT") <=> (133 <= w /\ w < 166)
               /\ (last.class = "FEATHERWEIGHT") <=> (125 <= w /\ w < 133)
               /\ (last.err = "InvalidInput") <=> (w < 125)
               /\ (last.err = "none") <=> (w >= 125)

\* get_weight_class was called with the lowest weight it accepts.
C18_Witness ==
    /\ last.op = "get_weight_class"
    /\ last.args.weight = 125
    /\ last.class = "FEATHERWEIGHT"

Returned == {p \in Procs : calls[p].pc = "returned"}

ReturnedWins == {p \in Returned : calls[p].result = "win"}

\* C16: when several calls of update_boxer_stats run at the same time on
\* the same storage for the same boxer, no update is lost: once every call
\* has returned or raised, the boxer's fights has grown by the number of
\* calls that returned and its wins by the number of those for a win, and
\* no other row has changed, whatever the interleaving.
C16_NoLostUpdate ==
    (\A p \in Procs : calls[p].pc \in {"returned", "raised"})
        => /\ HasId(boxers, 1)
           /\ RowOf(boxers, 1).fights
                  = RowOf(ConcurrentTable, 1).fights + Cardinality(Returned)
           /\ RowOf(boxers, 1).wins
                  = RowOf(ConcurrentTable, 1).wins + Cardinality(ReturnedWins)
           /\ OtherRows(boxers, {1}) = OtherRows(ConcurrentTable, {1})

\* Every call is over; a win and a loss both returned, and both had run
\* their SELECT on the same stored row, before either had committed.
C16_Witness ==
    /\ \A p \in Procs : calls[p].pc \in {"returned", "raised"}
    /\ \E p, q \in Returned :
           /\ calls[p].result = "win"
           /\ calls[q].result = "loss"
           /\ calls[p].seen = calls[q].seen

\* The argument of the enter_ring call that last' records: the Boxer looked
\* up under last'.id, the table being as it was before the call.
Entrant == gret_boxer_by_id(boxers, last'.id).boxer

\* C21: enter_ring of a value that is no Boxer raises InvalidInput and
\* leaves the ring as it was, whatever the ring holds, a full ring
\* included: the type is checked before the capacity. enter_ring of a Boxer
\* on a ring of fewer than 2 appends it as the last occupant.
C21_EnterRing ==
    [][ last'.op = "enter_ring"
        => /\ last'.id = 0 => (last'.err = "InvalidInput" /\ ring' = ring)
           /\ (last'.id # 0 /\ Len(ring) < 2)
                  => /\ last'.err = "none"
                     /\ Len(ring') = Len(ring) + 1
                     /\ SubSeq(ring', 1, Len(ring)) = ring
                     /\ ring'[Len(ring')] = Entrant ]_vars

\* A value that is no Boxer was refused on a full ring.
C21_Witness ==
    /\ last.op = "enter_ring"
    /\ last.id = 0
    /\ last.err = "InvalidInput"
    /\ Len(ring) = 2

C23_ClearRing ==
    [][ last'.op = "clear_ring"
        => /\ last'.err = "none"
           /\ Len(ring) \in {0, 1, 2}
           /\ ring' = <<>>
           /\ ring = <<>> => ring' = ring
           /\ clear_ring(ring') = ring'
           /\ clear_ring(clear_ring(ring)) = clear_ring(ring)
           /\ boxers' = boxers ]_vars

\* clear_ring has emptied a ring of 2 while the table has a row.
C23_Witness ==
    /\ last.op = "clear_ring"
    /\ last.err = "none"
    /\ Len(last.entrants) = 2
    /\ ring = <<>>
    /\ boxers # {}

\* The age modifier as C24 states it.
AgeModifier(age) == IF age < 25 THEN -1 ELSE IF age > 35 THEN -2 ELSE 0

\* C24: get_fighting_skill(boxer) is weight * len(name) + reach / 10 +
\* the age modifier, which is -1 below 25, -2 above 35 and 0 from 25 to 35,
\* both included; the call changes neither the ring nor the table. Both
\* sides are taken times ten.
C24_FightingSkill ==
    [][ last'.op = "get_fighting_skill"
        => LET b == last'.boxer[1]
           IN  /\ last'.err = "none"
               /\ last'.skill = 10 * b.weight * Len(b.name) + b.reach
                                    + 10 * AgeModifier(b.age)
               /\ b.age \in 25 .. 35
                      => last'.skill = 10 * b.weight * Len(b.name) + b.reach
               /\ ring' = ring
               /\ boxers' = boxers
               /\ nextId' = nextId ]_vars

\* The skill of a boxer of age 35 was taken while the ring held two boxers.
C24_Witness ==
    /\ last.op = "get_fighting_skill"
    /\ last.boxer[1].age = 35
    /\ last.boxer[1].reach = 75
    /\ last.skill = 10 * 150 * 3 + 75
    /\ Len(ring) = 2

\* C25: when the Boxer of one row of the table fills both slots of the
\* ring, a fight() that returns has recorded a win and a loss on that row:
\* its fights is 2 higher and its wins 1 higher, whatever the draw, and no
\* other row has changed.
C25_SameBoxerFight ==
    [][ ( /\ last'.op = "fight"
          /\ last'.err = "none"
          /\ Len(ring) = 2
          /\ ring[1].id = ring[2].id )
        => /\ HasId(boxers, ring[1].id)
           /\ HasId(boxers', ring[1].id)
           /\ RowOf(boxers', ring[1].id)
                  = [RowOf(boxers, ring[1].id)
                        EXCEPT !.fights = @ + 2, !.wins = @ + 1]
           /\ OtherRows(boxers', {ring[1].id}) = OtherRows(boxers, {ring[1].id})
           /\ last'.name = ring[1].name ]_vars

\* A boxer has fought itself twice, the second time with the highest draw.
C25_Witness ==
    /\ last.op = "fight"
    /\ last.err = "none"
    /\ Len(last.entrants) = 2
    /\ last.entrants[1].id = last.entrants[2].id
    /\ last.r = RGrid - 1
    /\ RowOf(boxers, last.entrants[1].id).fights = 4
    /\ RowOf(boxers, last.entrants[1].id).wins = 2

RECURSIVE TotalWins(_)
TotalWins(t) ==
    IF t = {} THEN 0
    ELSE LET b == CHOOSE x \in t : TRUE IN b.wins + TotalWins(t \ {b})

\* C26: from a table whose rows all have fights = 0 and wins = 0, and with
\* no update_boxer_stats or delete_boxer from outside the ring, the fights
\* of all rows sum to twice the number of fight() calls that returned, and
\* the wins to that number: both sums start at 0, every fight() that
\* returns adds 2 to the first and 1 to the second, and no other operation
\* of the ring changes either.
C26_FightTotals ==
    /\ TotalFights(boxers) = 0
    /\ TotalWins(boxers) = 0
    /\ [][ IF last'.op = "fight" /\ last'.err = "none"
           THEN /\ TotalFights(boxers') = TotalFights(boxers) + 2
                /\ TotalWins(boxers') = TotalWins(boxers) + 1
           ELSE /\ TotalFights(boxers') = TotalFights(boxers)
                /\ TotalWins(boxers') = TotalWins(boxers) ]_vars

\* Two fights have returned, and more than one row has fought.
C26_Witness ==
    /\ last.op = "fight"
    /\ last.err = "none"
    /\ TotalFights(boxers) = 4
    /\ TotalWins(boxers) = 2
    /\ Cardinality({b \in boxers : b.fights > 0}) >= 2

\* C27: outside fight() the ring and the catalog do not touch each other:
\* enter_ring, clear_ring and get_boxers change no row of the table, and
\* create_boxer, delete_boxer and update_boxer_stats leave the ring as it
\* was, so that a Boxer whose row is deleted stays in the ring.
C27_RingAndCatalogApart ==
    [][ /\ last'.op \in {"enter_ring", "clear_ring", "get_boxers"}
               => (boxers' = boxers /\ nextId' = nextId)
        /\ last'.op \in {"create_boxer", "delete_boxer", "update_boxer_stats"}
               => ring' = ring
        /\ (last'.op = "delete_boxer" /\ last'.err = "none")
               => \A i \in 1 .. Len(ring) :
                      ring[i].id = last'.id
                          => (Len(ring') = Len(ring) /\ ring'[i] = ring[i]) ]_vars

\* The row of a Boxer in the ring was deleted: the ring holds a Boxer whose
\* id the table no longer has.
C27_Witness ==
    /\ last.op = "delete_boxer"
    /\ last.err = "none"
    /\ ~HasId(boxers, last.id)
    /\ \E i \in 1 .. Len(ring) : ring[i].id = last.id

====
